---- MODULE Spec2Model ----
(***************************************************************************)
(* Model of the proxmox session code of fleeting-plugin-proxmox:           *)
(*   - the session ticket refresher (startSessionTicketRefresher,          *)
(*     runSessionTicketRefresher) with its owner, in discrete time         *)
(*     (one tick = one second);                                            *)
(*   - getProxmoxCredentials / getProxmoxClient;                           *)
(*   - getProxmoxPool / getProxmoxVM / getProxmoxVMOnNode.                 *)
(***************************************************************************)
EXTENDS Integers, Sequences, FiniteSets, TLC

VARIABLES
    build,          \* which source file of the refresher is compiled
    ownerPc,        \* position of the owner of the InstanceGroup
    wg,             \* ig.sessionTicketRefresherWaitGroup counter
    trigger,        \* TRUE once ig.sessionTicketRefresherShutdownTrigger has fired
    rpc,            \* position of the refresher goroutine
    timer,          \* ticks left until time.After(sessionTicketRefreshInterval) fires
    ctx,            \* ticks left until the deadline of the cycle's context
    credFile,       \* content of the file at ig.Settings.CredentialsFilePath
    cycleLog,       \* what ig.log received during the current (or last) cycle
    cycleResult,    \* how the current (or last) cycle ended
    callsInCycle,   \* ig.proxmox.Ticket calls issued in the current (or last) cycle
    sinceCall,      \* ticks since the last ig.proxmox.Ticket call was issued, -1: none yet
    sinceShutdown,  \* ticks since the shutdown trigger fired, -1: not fired
    signalPc,       \* position of the refresher when the shutdown trigger fired
    settingsURL,    \* ig.Settings.URL
    clientResult,   \* what the last getProxmoxClient call returned and did
    poolMembers,    \* pool.Members as the cluster API returns them now
    vmResult,       \* what the last getProxmoxVM call returned and did
    ticketArgs,     \* the credentials argument of the last ig.proxmox.Ticket call
    openHandles,    \* file handles the process holds open
    credResult,     \* what the last direct getProxmoxCredentials call returned
    vmPrev          \* outcome of the getProxmoxVM call before the last, same id

vars == <<build, ownerPc, wg, trigger, rpc, timer, ctx, credFile, cycleLog,
          cycleResult, callsInCycle, sinceCall, sinceShutdown, signalPc,
          settingsURL, clientResult, poolMembers, vmResult, ticketArgs,
          openHandles, credResult, vmPrev>>

refresherVars == <<build, ownerPc, wg, trigger, rpc, timer, ctx, cycleLog,
                   cycleResult, callsInCycle, sinceCall, sinceShutdown, signalPc,
                   ticketArgs>>

\* What the callers of getProxmoxClient, getProxmoxCredentials and
\* getProxmoxVM hold, and the cluster's pool.
callerVars == <<settingsURL, clientResult, poolMembers, vmResult, credResult, vmPrev>>

\* One tick is one second.
sessionTicketRefreshInterval == 3600
sessionTicketRefreshTimeout == 5

\* A Go pointer or error value: nil, or a reference to one value.
Nil == <<>>
Ref(x) == <<x>>

Min(a, b) == IF a < b THEN a ELSE b

-----------------------------------------------------------------------------
(* The credential file and getProxmoxCredentials.                          *)

\* The keys of the Credentials struct that the code under test reads.
JSONKeys == {"username", "password", "token", "path", "privs", "realm"}

\* A JSON value of a key: absent, a string, or a number (not a string).
NUMBER == "<number>"
ABSENT == "<absent>"

\* What may be at the credentials path: no file, a file that is no JSON
\* object, or a JSON object.
NoFile == [kind |-> "missing"]
NotJSON == [kind |-> "garbage"]
JSONFile(obj) == [kind |-> "json", obj |-> obj]

\* json.Decoder.Decode into a string field: an absent key leaves the zero
\* value, a string is stored, any other JSON type is an error.
DecodeOK(obj) == \A k \in JSONKeys : obj[k] # NUMBER

Field(obj, k) == IF obj[k] = ABSENT THEN "" ELSE obj[k]

Decode(obj) ==
    [Username |-> Field(obj, "username"),
     Password |-> Field(obj, "password"),
     TokenID  |-> Field(obj, "token"),
     Path     |-> Field(obj, "path"),
     Privs    |-> Field(obj, "privs"),
     Realm    |-> Field(obj, "realm")]

\* getProxmoxCredentials closing the file by hand after a successful decode
\* only, instead of by defer.
getProxmoxCredentialsNoDefer(file) ==
    IF file.kind = "missing"
    THEN [credentials |-> Nil,
          err |-> Ref([msg |-> "failed to open credentials file from path", wraps |-> "open"]),
          opened |-> 0, closed |-> 0]
    ELSE IF file.kind = "garbage" \/ ~DecodeOK(file.obj)
    THEN [credentials |-> Nil,
          err |-> Ref([msg |-> "failed to decode credentials file from path", wraps |-> "decode"]),
          opened |-> 1, closed |-> 0]
    ELSE [credentials |-> Ref(Decode(file.obj)), err |-> Nil,
          opened |-> 1, closed |-> 1]

\* getProxmoxCredentials: the credentials or the wrapped error, and the file
\* handles opened and closed on the way.
getProxmoxCredentials(file) ==
    IF file.kind = "missing"
    THEN [credentials |-> Nil,
          err |-> Ref([msg |-> "failed to open credentials file from path", wraps |-> "open"]),
          opened |-> 0, closed |-> 0]
    ELSE IF file.kind = "garbage" \/ ~DecodeOK(file.obj)
    THEN [credentials |-> Nil,
          err |-> Ref([msg |-> "failed to decode credentials file from path", wraps |-> "decode"]),
          opened |-> 1, closed |-> 1]
    ELSE [credentials |-> Ref(Decode(file.obj)), err |-> Nil,
          opened |-> 1, closed |-> 1]

\* The credential files the refresher is run against.
User1File ==
    JSONFile([username |-> "root", password |-> "pw", token |-> ABSENT,
              path |-> ABSENT, privs |-> ABSENT, realm |-> "pam"])
User2File ==
    JSONFile([username |-> "ci", password |-> "pw", token |-> ABSENT,
              path |-> ABSENT, privs |-> ABSENT, realm |-> "pam"])
RefresherFiles == {NoFile, NotJSON, User1File, User2File}

\* The file at the credentials path is replaced from outside the process.
RotateCredentials(files) ==
    /\ \E f \in files : credFile' = f /\ f # credFile
    /\ UNCHANGED <<refresherVars, openHandles, callerVars>>

-----------------------------------------------------------------------------
(* The owner of the group and the refresher goroutine.                     *)

LogCredentialsError == "failed to refresh proxmox session, could not read credentials"
LogRefreshError == "failed to refresh proxmox session"
LogRefreshed == "refreshed proxmox session"

otherVars == <<credFile, openHandles, callerVars>>

\* The goroutine is launched without the wait group having been incremented.
startWithoutAdd ==
    /\ ownerPc = "idle"
    /\ rpc' = "launched"
    /\ ownerPc' = "running"
    /\ UNCHANGED <<build, wg, trigger, timer, ctx, cycleLog, cycleResult, callsInCycle,
                   sinceCall, sinceShutdown, signalPc, ticketArgs, otherVars>>

\* startSessionTicketRefresher: Add(1), then launch the goroutine.
startSessionTicketRefresher ==
    /\ ownerPc = "idle"
    /\ wg' = wg + 1
    /\ rpc' = "launched"
    /\ ownerPc' = "running"
    /\ UNCHANGED <<build, trigger, timer, ctx, cycleLog, cycleResult, callsInCycle,
                   sinceCall, sinceShutdown, signalPc, ticketArgs, otherVars>>

\* The owner fires the shutdown trigger (once).
Shutdown ==
    /\ ownerPc = "running"
    /\ trigger' = TRUE
    /\ sinceShutdown' = 0
    /\ signalPc' = rpc
    /\ ownerPc' = "waiting"
    /\ UNCHANGED <<build, wg, rpc, timer, ctx, cycleLog, cycleResult, callsInCycle,
                   sinceCall, ticketArgs, otherVars>>

\* The owner's Wait on the wait group returns when the counter is zero.
WaitReturn ==
    /\ ownerPc = "waiting"
    /\ wg = 0
    /\ ownerPc' = "torn_down"
    /\ UNCHANGED <<build, wg, trigger, rpc, timer, ctx, cycleLog, cycleResult,
                   callsInCycle, sinceCall, sinceShutdown, signalPc, ticketArgs, otherVars>>

\* The goroutine enters runSessionTicketRefresher: the select statement is
\* evaluated, which arms time.After(sessionTicketRefreshInterval).
EnterSelect ==
    /\ rpc = "launched"
    /\ rpc' = "select"
    /\ timer' = sessionTicketRefreshInterval
    /\ UNCHANGED <<build, ownerPc, wg, trigger, ctx, cycleLog, cycleResult,
                   callsInCycle, sinceCall, sinceShutdown, signalPc, ticketArgs, otherVars>>

\* A break in place of the return: it leaves the select, not the for loop.
SelectShutdownBreak ==
    /\ rpc = "select"
    /\ trigger
    /\ rpc' = "select"
    /\ timer' = sessionTicketRefreshInterval
    /\ UNCHANGED <<build, ownerPc, wg, trigger, ctx, cycleLog, cycleResult,
                   callsInCycle, sinceCall, sinceShutdown, signalPc, ticketArgs, otherVars>>

\* case <-ig.sessionTicketRefresherShutdownTrigger: return
\* (the timer of this select is dropped with it, and the clock that measures
\* the distance between Ticket calls is stopped: no call follows)
SelectShutdown ==
    /\ rpc = "select"
    /\ trigger
    /\ rpc' = "returning"
    /\ timer' = 0
    /\ sinceCall' = -1
    /\ UNCHANGED <<build, ownerPc, wg, trigger, ctx, cycleLog, cycleResult,
                   callsInCycle, sinceShutdown, signalPc, ticketArgs, otherVars>>

\* The cycle's context given the refresh interval as its timeout.
WithTimeoutOfInterval == sessionTicketRefreshInterval

\* The deadline context.WithTimeout gives the cycle.
WithTimeout == sessionTicketRefreshTimeout

\* case <-time.After(sessionTicketRefreshInterval): the cycle starts with
\* its context.
SelectTimer ==
    /\ rpc = "select"
    /\ timer = 0
    /\ rpc' = "cycle"
    /\ ctx' = WithTimeout
    /\ cycleLog' = <<>>
    /\ cycleResult' = "running"
    /\ callsInCycle' = 0
    /\ UNCHANGED <<build, ownerPc, wg, trigger, timer, sinceCall, sinceShutdown,
                   signalPc, ticketArgs, otherVars>>

\* The next iteration of the for loop: the select is evaluated again.
BackToSelect ==
    /\ rpc' = "select"
    /\ timer' = sessionTicketRefreshInterval

\* ig.proxmox.Ticket(ctx, ...) is issued and the goroutine blocks in it.
IssueTicket(credentials) ==
    /\ rpc' = "ticket"
    /\ callsInCycle' = Min(callsInCycle + 1, 2)
    /\ sinceCall' = 0
    /\ ticketArgs' = Ref(credentials)

\* The handles getProxmoxCredentials opened and did not close stay with the
\* process.
HandlesAfter(loaded) == Min(openHandles + loaded.opened - loaded.closed, 2)

\* proxmoxCredentials of the cycle: only the Username is set (the lines that
\* set Realm and Password are commented out).
RefreshCredentials(c) ==
    [Username |-> c.Username, Password |-> "", Path |-> "", Privs |-> "", Realm |-> ""]

\* A failed credential read that returns from runSessionTicketRefresher (no
\* closure around the cycle).
CycleReadCredentialsFatal ==
    /\ rpc = "cycle"
    /\ build = "proxmox_session.go"
    /\ LET loaded == getProxmoxCredentials(credFile)
       IN  /\ openHandles' = HandlesAfter(loaded)
           /\ IF loaded.err # Nil
              THEN /\ cycleLog' = Append(cycleLog, LogCredentialsError)
                   /\ cycleResult' = "credentials_failed"
                   /\ rpc' = "returning"
                   /\ UNCHANGED <<callsInCycle, sinceCall, ticketArgs, timer>>
              ELSE /\ IssueTicket(Ref(RefreshCredentials(loaded.credentials[1])))
                   /\ UNCHANGED <<cycleLog, cycleResult, timer>>
    /\ UNCHANGED <<build, ownerPc, wg, trigger, ctx, sinceShutdown, signalPc,
                   credFile, callerVars>>

\* A failed credential read after which the cycle goes on to the Ticket call
\* (the return after the log line left out).
CycleReadCredentialsNoReturn ==
    /\ rpc = "cycle"
    /\ build = "proxmox_session.go"
    /\ LET loaded == getProxmoxCredentials(credFile)
       IN  /\ openHandles' = HandlesAfter(loaded)
           /\ IF loaded.err # Nil
              THEN /\ cycleLog' = Append(cycleLog, LogCredentialsError)
                   /\ cycleResult' = "credentials_failed"
                   /\ IssueTicket(Ref(RefreshCredentials(Decode([k \in JSONKeys |-> ABSENT]))))
                   /\ UNCHANGED timer
              ELSE /\ IssueTicket(Ref(RefreshCredentials(loaded.credentials[1])))
                   /\ UNCHANGED <<cycleLog, cycleResult, timer>>
    /\ UNCHANGED <<build, ownerPc, wg, trigger, ctx, sinceShutdown, signalPc,
                   credFile, callerVars>>

\* The cycle working from the credentials as they were when the process
\* started, instead of reading the file.
CycleReadCredentialsCached ==
    /\ rpc = "cycle"
    /\ build = "proxmox_session.go"
    /\ IssueTicket(Ref(RefreshCredentials(Decode(User1File.obj))))
    /\ UNCHANGED <<build, ownerPc, wg, trigger, timer, ctx, cycleLog, cycleResult,
                   sinceShutdown, signalPc, otherVars>>

\* proxmox_session.go: the cycle re-reads the credentials; on failure it logs
\* and the cycle is over, otherwise it issues the Ticket call.
CycleReadCredentials ==
    /\ rpc = "cycle"
    /\ build = "proxmox_session.go"
    /\ LET loaded == getProxmoxCredentials(credFile)
       IN  /\ openHandles' = HandlesAfter(loaded)
           /\ IF loaded.err # Nil
              THEN /\ cycleLog' = Append(cycleLog, LogCredentialsError)
                   /\ cycleResult' = "credentials_failed"
                   /\ BackToSelect
                   /\ UNCHANGED <<callsInCycle, sinceCall, ticketArgs>>
              ELSE /\ IssueTicket(Ref(RefreshCredentials(loaded.credentials[1])))
                   /\ UNCHANGED <<cycleLog, cycleResult, timer>>
    /\ UNCHANGED <<build, ownerPc, wg, trigger, ctx, sinceShutdown, signalPc,
                   credFile, callerVars>>

\* part_000: the cycle issues the Ticket call right away.
CycleNoCredentials ==
    /\ rpc = "cycle"
    /\ build = "part_000"
    /\ IssueTicket(Nil)
    /\ UNCHANGED <<build, ownerPc, wg, trigger, timer, ctx, cycleLog, cycleResult,
                   sinceShutdown, signalPc, otherVars>>

\* What the cycle logs once the Ticket call has returned.
LogAfterTicket(outcome) ==
    IF outcome # "renew_ok"
    THEN <<LogRefreshError, LogRefreshed>>
    ELSE <<LogRefreshed>>

\* A failed Ticket call that is retried inside the cycle.
TicketReturnRetry(outcome) ==
    /\ rpc = "ticket"
    /\ outcome = "renew_timeout" => ctx = 0
    /\ IF outcome # "renew_ok"
       THEN /\ IssueTicket(ticketArgs[1])
            /\ cycleLog' = <<LogRefreshError>>
            /\ UNCHANGED <<cycleResult, timer>>
       ELSE /\ cycleResult' = outcome
            /\ cycleLog' = cycleLog \o <<LogRefreshed>>
            /\ BackToSelect
            /\ UNCHANGED <<callsInCycle, sinceCall, ticketArgs>>
    /\ UNCHANGED <<build, ownerPc, wg, trigger, ctx, sinceShutdown, signalPc, otherVars>>

\* The Ticket call returns: with a ticket or an API error at any time up to
\* the deadline, with the context's error at the deadline. The closure logs
\* and returns, and the loop goes round.
TicketReturn(outcome) ==
    /\ rpc = "ticket"
    /\ outcome = "renew_timeout" => ctx = 0
    /\ cycleResult' = outcome
    /\ cycleLog' = cycleLog \o LogAfterTicket(outcome)
    /\ BackToSelect
    /\ UNCHANGED <<build, ownerPc, wg, trigger, ctx, callsInCycle, sinceCall,
                   sinceShutdown, signalPc, ticketArgs, otherVars>>

\* defer ig.sessionTicketRefresherWaitGroup.Done()
RefresherDone ==
    /\ rpc = "returning"
    /\ wg' = wg - 1
    /\ rpc' = "done"
    /\ UNCHANGED <<build, ownerPc, trigger, timer, ctx, cycleLog, cycleResult,
                   callsInCycle, sinceCall, sinceShutdown, signalPc, ticketArgs, otherVars>>

\* The refresher can take a step without waiting for anything.
RefresherReady ==
    \/ rpc \in {"launched", "cycle", "returning"}
    \/ rpc = "select" /\ (trigger \/ timer = 0)
    \/ rpc = "ticket" /\ ctx = 0

\* One second passes while the refresher is blocked in the select or in the
\* Ticket call.
Tick ==
    /\ rpc \in {"select", "ticket"}
    /\ ~RefresherReady
    /\ timer' = IF rpc = "select" THEN timer - 1 ELSE timer
    /\ ctx' = IF rpc = "ticket" THEN ctx - 1 ELSE ctx
    /\ sinceCall' = IF sinceCall = -1 THEN -1
                    ELSE Min(sinceCall + 1, sessionTicketRefreshInterval)
    /\ sinceShutdown' = IF sinceShutdown = -1 THEN -1
                        ELSE Min(sinceShutdown + 1, sessionTicketRefreshTimeout + 1)
    /\ UNCHANGED <<build, ownerPc, wg, trigger, rpc, cycleLog, cycleResult,
                   callsInCycle, signalPc, ticketArgs, otherVars>>

Refresher ==
    \/ EnterSelect
    \/ SelectShutdown
    \/ SelectTimer
    \/ CycleReadCredentials
    \/ CycleNoCredentials
    \/ \E o \in {"renew_ok", "renew_failed", "renew_timeout"} : TicketReturn(o)
    \/ RefresherDone

InitRefresher ==
    /\ build \in {"proxmox_session.go", "part_000"}
    /\ ownerPc = "idle"
    /\ wg = 0
    /\ trigger = FALSE
    /\ rpc = "none"
    /\ timer = 0
    /\ ctx = 0
    /\ cycleLog = <<>>
    /\ cycleResult = "none"
    /\ callsInCycle = 0
    /\ sinceCall = -1
    /\ sinceShutdown = -1
    /\ signalPc = "none"
    /\ ticketArgs = Nil
    /\ openHandles = 0
    /\ credResult = Nil
    /\ vmPrev = Nil

InitRest ==
    /\ settingsURL = "https://pve:8006"
    /\ clientResult = Nil
    /\ poolMembers = <<>>
    /\ vmResult = Nil

Init ==
    /\ InitRefresher
    /\ credFile \in RefresherFiles
    /\ InitRest

Next ==
    \/ startSessionTicketRefresher
    \/ Shutdown
    \/ WaitReturn
    \/ Refresher
    \/ Tick
    \/ RotateCredentials(RefresherFiles)

Spec == Init /\ [][Next]_vars

\* A runnable goroutine is eventually scheduled, and the Ticket call returns
\* or its context expires.
FairSpec == Spec /\ WF_vars(Refresher)

-----------------------------------------------------------------------------
(* getProxmoxClient.                                                       *)

\* The values of ig.Settings.URL the client is built from, and those among
\* them url.Parse rejects.
URLs == {"https://pve:8006", "https://pve:8006/", "https://[pve:8006", ":8006"}
MalformedURLs == {"https://[pve:8006", ":8006"}

urlParse(u) ==
    IF u \in MalformedURLs
    THEN [url |-> Nil, err |-> Ref([msg |-> "parse", wraps |-> ""])]
    ELSE [url |-> Ref(u), err |-> Nil]

\* url.JoinPath("/api2/json").String(): the joined path is cleaned, so a
\* trailing slash of the base gives no double slash.
JoinPath(u) ==
    IF u = "https://pve:8006/" THEN "https://pve:8006/api2/json"
    ELSE IF u = "https://pve:8006" THEN "https://pve:8006/api2/json"
    ELSE "/api2/json"

\* The credential files getProxmoxClient is run against.
JSONObjects ==
    [username : {ABSENT, "root", NUMBER},
     password : {ABSENT, "pw", NUMBER},
     token    : {ABSENT, "", "ci-token", NUMBER},
     path     : {ABSENT, "/vms"},
     privs    : {ABSENT, "VM.Audit"},
     realm    : {ABSENT, "pam", NUMBER}]
ClientFiles == {NoFile, NotJSON} \cup {JSONFile(o) : o \in JSONObjects}

\* proxmox.Credentials of the password branch, with the realm left out.
PasswordCredentialsNoRealm(c) ==
    [Username |-> c.Username, Password |-> c.Password,
     Path |-> c.Path, Privs |-> c.Privs, Realm |-> ""]

\* The proxmox.Credentials the password branch fills in.
PasswordCredentials(c) ==
    [Username |-> c.Username, Password |-> c.Password,
     Path |-> c.Path, Privs |-> c.Privs, Realm |-> c.Realm]

\* fmt.Sprintf("%s@%s!%s", ...) with realm and token swapped.
APITokenSwapped(c) == <<c.Username, "@", c.TokenID, "!", c.Realm>>

\* fmt.Sprintf("%s@%s!%s", credentials.Username, credentials.Realm, credentials.TokenID)
APIToken(c) == <<c.Username, "@", c.Realm, "!", c.TokenID>>

\* proxmox.NewClient(..., proxmox.WithCredentials(proxmoxCredentials), ...)
NewClientWithCredentials(baseURL, pc) ==
    [baseURL |-> baseURL, credentials |-> Ref(pc), token |-> Nil, secret |-> ""]

\* proxmox.NewClient(..., proxmox.WithAPIToken(apiToken, credentials.Password), ...)
NewClientWithAPIToken(baseURL, token, secret) ==
    [baseURL |-> baseURL, credentials |-> Nil, token |-> Ref(token), secret |-> secret]

\* The branch on credentials.TokenID taken on the username instead.
BuildClientByUsername(u, c) ==
    IF c.Username = ""
    THEN NewClientWithCredentials(JoinPath(u), PasswordCredentials(c))
    ELSE NewClientWithAPIToken(JoinPath(u), APIToken(c), c.Password)

\* The if/else of getProxmoxClient on credentials.TokenID.
BuildClient(u, c) ==
    IF c.TokenID = ""
    THEN NewClientWithCredentials(JoinPath(u), PasswordCredentials(c))
    ELSE NewClientWithAPIToken(JoinPath(u), APIToken(c), c.Password)

\* getProxmoxClient with the credentials loaded before the URL is parsed.
getProxmoxClientCredentialsFirst(u, file) ==
    LET parsed == urlParse(u)
        loaded == getProxmoxCredentials(file)
    IN  IF loaded.err # Nil
        THEN [client |-> Nil, err |-> loaded.err,
              opened |-> loaded.opened, closed |-> loaded.closed]
        ELSE IF parsed.err # Nil
        THEN [client |-> Nil,
              err |-> Ref([msg |-> "failed to parse URL", wraps |-> "parse"]),
              opened |-> loaded.opened, closed |-> loaded.closed]
        ELSE [client |-> Ref(BuildClient(parsed.url[1], loaded.credentials[1])),
              err |-> Nil, opened |-> loaded.opened, closed |-> loaded.closed]

\* getProxmoxClient: the client or the error, and how often the credentials
\* file was opened.
getProxmoxClient(u, file) ==
    LET parsed == urlParse(u)
        loaded == getProxmoxCredentials(file)
    IN  IF parsed.err # Nil
        THEN [client |-> Nil,
              err |-> Ref([msg |-> "failed to parse URL", wraps |-> "parse"]),
              opened |-> 0, closed |-> 0]
        ELSE IF loaded.err # Nil
        THEN [client |-> Nil, err |-> loaded.err,
              opened |-> loaded.opened, closed |-> loaded.closed]
        ELSE [client |-> Ref(BuildClient(parsed.url[1], loaded.credentials[1])),
              err |-> Nil, opened |-> loaded.opened, closed |-> loaded.closed]

\* A caller calls getProxmoxClient.
CallGetProxmoxClient ==
    /\ LET ret == getProxmoxClient(settingsURL, credFile)
       IN  /\ clientResult' = Ref([url |-> settingsURL, file |-> credFile, ret |-> ret])
           /\ openHandles' = HandlesAfter(ret)
    /\ UNCHANGED <<refresherVars, credFile, settingsURL, poolMembers, vmResult,
                   credResult, vmPrev>>

\* A caller calls getProxmoxCredentials.
CallGetProxmoxCredentials ==
    /\ LET ret == getProxmoxCredentials(credFile)
       IN  /\ credResult' = Ref([file |-> credFile, ret |-> ret])
           /\ openHandles' = HandlesAfter(ret)
    /\ UNCHANGED <<refresherVars, credFile, settingsURL, clientResult, poolMembers,
                   vmResult, vmPrev>>

InitClient ==
    /\ InitRefresher
    /\ credFile \in ClientFiles
    /\ settingsURL \in URLs
    /\ clientResult = Nil
    /\ poolMembers = <<>>
    /\ vmResult = Nil

NextClient ==
    \/ CallGetProxmoxClient
    \/ CallGetProxmoxCredentials

SpecClient == InitClient /\ [][NextClient]_vars

-----------------------------------------------------------------------------
(* getProxmoxPool, getProxmoxVM and getProxmoxVMOnNode.                    *)

MaxMembers == 3
UintBits == 10

MemberTypes == {"qemu", "lxc"}
MemberVMIDs == {105, 106}
NodeNames == {"pve1", "pve2"}
Members == [Type : MemberTypes, VMID : MemberVMIDs, Node : NodeNames]
Pools == UNION {[1..n -> Members] : n \in 0..MaxMembers}

\* The ids getProxmoxVM is asked for: the id of a member, an id no member
\* has, and a negative one.
RequestedVMIDs == {105, 999, -1}

\* uint64(vmid), at the width of the model: a negative vmid wraps to a value
\* above every VMID the cluster hands out.
Uint(vmid) == vmid % (2 ^ UintBits)

ErrNotFound == [msg |-> "not found", wraps |-> "", context |-> <<>>]

\* What the cluster API answers to the calls of one getProxmoxVM: all of
\* them, or the first that fails.
APIAnswers == {"ok", "pool_fails", "node_fails", "vm_fails"}

\* getProxmoxPool: ig.proxmox.Pool, the error wrapped with the pool name.
getProxmoxPool(members, api) ==
    IF api = "pool_fails"
    THEN [pool |-> Nil,
          err |-> Ref([msg |-> "failed to get pool id", wraps |-> "api",
                       context |-> <<"ig.Settings.Pool">>]),
          calls |-> <<<<"Pool">>>>]
    ELSE [pool |-> Ref(members), err |-> Nil, calls |-> <<<<"Pool">>>>]

\* getProxmoxVMOnNode: the node, then the VM on it, each error wrapped.
getProxmoxVMOnNode(vmid, nodeName, api) ==
    IF api = "node_fails"
    THEN [vm |-> Nil,
          err |-> Ref([msg |-> "failed to get node", wraps |-> "api",
                       context |-> <<nodeName>>]),
          calls |-> <<<<"Node", nodeName>>>>]
    ELSE IF api = "vm_fails"
    THEN [vm |-> Nil,
          err |-> Ref([msg |-> "failed to get vm on node", wraps |-> "api",
                       context |-> <<ToString(vmid), nodeName>>]),
          calls |-> <<<<"Node", nodeName>>, <<"VirtualMachine", nodeName, vmid>>>>]
    ELSE [vm |-> Ref([VMID |-> vmid, Node |-> nodeName]), err |-> Nil,
          calls |-> <<<<"Node", nodeName>>, <<"VirtualMachine", nodeName, vmid>>>>]

\* The loop of getProxmoxVM with the test of member.Type left out.
RECURSIVE ScanAnyType(_, _, _, _)
ScanAnyType(members, i, vmid, api) ==
    IF i > Len(members)
    THEN [vm |-> Nil, err |-> Ref(ErrNotFound), calls |-> <<>>]
    ELSE IF members[i].VMID = Uint(vmid)
    THEN getProxmoxVMOnNode(vmid, members[i].Node, api)
    ELSE ScanAnyType(members, i + 1, vmid, api)

\* The loop of getProxmoxVM going on to the later members when the lookup on
\* the node of a matching member fails.
RECURSIVE ScanContinueOnError(_, _, _, _)
ScanContinueOnError(members, i, vmid, api) ==
    IF i > Len(members)
    THEN [vm |-> Nil, err |-> Ref(ErrNotFound), calls |-> <<>>]
    ELSE IF members[i].Type # "qemu"
    THEN ScanContinueOnError(members, i + 1, vmid, api)
    ELSE IF members[i].VMID = Uint(vmid)
    THEN LET looked == getProxmoxVMOnNode(vmid, members[i].Node, api)
             rest == ScanContinueOnError(members, i + 1, vmid, api)
         IN  IF looked.err = Nil
             THEN looked
             ELSE [vm |-> rest.vm, err |-> rest.err, calls |-> looked.calls \o rest.calls]
    ELSE ScanContinueOnError(members, i + 1, vmid, api)

\* The loop of getProxmoxVM from member i on: members of another type are
\* skipped, the first qemu member with the VMID is looked up on its node, and
\* the end of the list is ErrNotFound.
RECURSIVE Scan(_, _, _, _)
Scan(members, i, vmid, api) ==
    IF i > Len(members)
    THEN [vm |-> Nil, err |-> Ref(ErrNotFound), calls |-> <<>>]
    ELSE IF members[i].Type # "qemu"
    THEN Scan(members, i + 1, vmid, api)
    ELSE IF members[i].VMID = Uint(vmid)
    THEN getProxmoxVMOnNode(vmid, members[i].Node, api)
    ELSE Scan(members, i + 1, vmid, api)

\* getProxmoxVM: the pool, then the scan of its members.
getProxmoxVM(members, vmid, api) ==
    LET fetched == getProxmoxPool(members, api)
    IN  IF fetched.err # Nil
        THEN [vm |-> Nil, err |-> fetched.err, calls |-> fetched.calls]
        ELSE LET found == Scan(fetched.pool[1], 1, vmid, api)
             IN  [vm |-> found.vm, err |-> found.err,
                  calls |-> fetched.calls \o found.calls]

\* A caller calls getProxmoxVM(ctx, vmid); the cluster answers as api says.
CallGetProxmoxVM(vmid, api) ==
    /\ vmResult' = Ref([members |-> poolMembers, vmid |-> vmid, api |-> api,
                        ret |-> getProxmoxVM(poolMembers, vmid, api)])
    /\ UNCHANGED <<refresherVars, credFile, openHandles, settingsURL, clientResult,
                   poolMembers, credResult, vmPrev>>

\* The cluster migrates the instance of member i to another node.
Migrate(i, n) ==
    /\ i \in 1..Len(poolMembers)
    /\ poolMembers[i].Node # n
    /\ poolMembers' = [poolMembers EXCEPT ![i].Node = n]
    /\ UNCHANGED <<refresherVars, credFile, openHandles, settingsURL, clientResult,
                   vmResult, credResult, vmPrev>>

InitVM ==
    /\ InitRefresher
    /\ build = "proxmox_session.go"
    /\ credFile = User1File
    /\ settingsURL = "https://pve:8006"
    /\ clientResult = Nil
    /\ poolMembers \in Pools
    /\ vmResult = Nil

NextVM ==
    \/ \E vmid \in RequestedVMIDs, api \in APIAnswers : CallGetProxmoxVM(vmid, api)
    \/ \E i \in 1..MaxMembers, n \in NodeNames : Migrate(i, n)

SpecVM == InitVM /\ [][NextVM]_vars

\* A call of getProxmoxVM that looks the instance up on the node of any
\* matching member, as a scan in no fixed order would.
CallGetProxmoxVMAnyMatch(vmid, api) ==
    /\ vmPrev' = vmResult
    /\ LET matching == {i \in 1..Len(poolMembers) :
                            /\ poolMembers[i].Type = "qemu"
                            /\ poolMembers[i].VMID = Uint(vmid)}
       IN  IF matching = {} \/ api = "pool_fails"
           THEN vmResult' = Ref([members |-> poolMembers, vmid |-> vmid, api |-> api,
                                 ret |-> getProxmoxVM(poolMembers, vmid, api)])
           ELSE \E i \in matching :
                   LET looked == getProxmoxVMOnNode(vmid, poolMembers[i].Node, api)
                   IN  vmResult' = Ref([members |-> poolMembers, vmid |-> vmid,
                                        api |-> api,
                                        ret |-> [vm |-> looked.vm, err |-> looked.err,
                                                 calls |-> <<<<"Pool">>>> \o looked.calls]])
    /\ UNCHANGED <<refresherVars, credFile, openHandles, settingsURL, clientResult,
                   poolMembers, credResult>>

\* A call of getProxmoxVM that scans the membership list of the call before
\* it, when there was one, instead of fetching the pool.
CallGetProxmoxVMCached(vmid, api) ==
    /\ vmPrev' = vmResult
    /\ LET members == IF vmResult = Nil THEN poolMembers ELSE vmResult[1].members
       IN  vmResult' = Ref([members |-> members, vmid |-> vmid, api |-> api,
                            ret |-> getProxmoxVM(members, vmid, api)])
    /\ UNCHANGED <<refresherVars, credFile, openHandles, settingsURL, clientResult,
                   poolMembers, credResult>>

\* A caller calls getProxmoxVM(ctx, vmid) again: as CallGetProxmoxVM, with
\* the call before it kept for comparison.
CallGetProxmoxVMAgain(vmid, api) ==
    /\ vmPrev' = vmResult
    /\ vmResult' = Ref([members |-> poolMembers, vmid |-> vmid, api |-> api,
                        ret |-> getProxmoxVM(poolMembers, vmid, api)])
    /\ UNCHANGED <<refresherVars, credFile, openHandles, settingsURL, clientResult,
                   poolMembers, credResult>>

\* The pools whose members all carry the id that is asked for.
PoolsOf105 == {p \in Pools : \A i \in 1..Len(p) : p[i].VMID = 105}

InitVMHistory ==
    /\ InitRefresher
    /\ build = "proxmox_session.go"
    /\ credFile = User1File
    /\ settingsURL = "https://pve:8006"
    /\ clientResult = Nil
    /\ poolMembers \in PoolsOf105
    /\ vmResult = Nil

NextVMHistory ==
    \/ \E api \in {"ok", "node_fails"} : CallGetProxmoxVMAgain(105, api)
    \/ \E i \in 1..MaxMembers, n \in NodeNames : Migrate(i, n)

SpecVMHistory == InitVMHistory /\ [][NextVMHistory]_vars

-----------------------------------------------------------------------------
(* Properties of the refresher.                                            *)

\* C1: once the shutdown trigger has fired, the refresher eventually leaves
\* its loop and signals completion (Done brings the wait group to zero),
\* wherever in the loop it was when the trigger fired.
C1_ExitsAfterShutdown == trigger ~> (rpc = "done" /\ wg = 0)

\* The trigger fired in the middle of a Ticket call, and the refresher is done.
C1_Witness == rpc = "done" /\ wg = 0 /\ signalPc = "ticket"

\* C2: in ticks, the refresher has signalled completion no later than one
\* refresh timeout after the shutdown trigger fired (the clock sinceShutdown
\* stops when the refresher is done).
C2_ExitWithinTimeout == sinceShutdown <= sessionTicketRefreshTimeout

\* The trigger fired as a cycle started, the cluster did not answer, and the
\* refresher was done a full timeout later.
C2_Witness ==
    /\ rpc = "done"
    /\ signalPc = "cycle"
    /\ cycleResult = "renew_timeout"
    /\ sinceShutdown = sessionTicketRefreshTimeout

FailedResults == {"credentials_failed", "renew_failed", "renew_timeout"}

\* C3: a cycle that fails leaves the refresher in its loop, waiting in the
\* select with a fresh timer, and touches neither the owner nor the wait
\* group; the refresher leaves its loop only when the trigger has fired.
C3_FailedCycleNotFatal ==
    /\ [](rpc \in {"returning", "done"} => trigger)
    /\ [][(cycleResult = "running" /\ cycleResult' \in FailedResults)
            => /\ rpc' = "select"
               /\ timer' = sessionTicketRefreshInterval
               /\ UNCHANGED <<wg, ownerPc, trigger>>]_vars

\* A cycle failed on the credential read and the refresher waits again.
C3_Witness ==
    /\ rpc = "select"
    /\ cycleResult = "credentials_failed"
    /\ timer < sessionTicketRefreshInterval
    /\ ~trigger

\* C4: the wait group counts the refresher from before its launch until it
\* has returned, so the owner's Wait returns only when the refresher is done,
\* and a refresher that is done takes no further step (no log line, no
\* credential read, no Ticket call).
C4_WaitOnlyAfterExit ==
    /\ [](rpc \notin {"none", "done"} => wg = 1)
    /\ [](ownerPc = "torn_down" => rpc = "done")
    /\ [][rpc = "done" => /\ rpc' = "done"
                          /\ UNCHANGED <<cycleLog, cycleResult, callsInCycle>>]_vars

\* The owner's Wait has returned after a refresher that ran a cycle.
C4_Witness == ownerPc = "torn_down" /\ rpc = "done" /\ cycleResult = "renew_ok"

Logged(m) == \E i \in 1..Len(cycleLog) : cycleLog[i] = m

\* C5: the confirmation is logged only in a cycle whose Ticket call
\* succeeded; a cycle whose Ticket call failed or timed out has logged the
\* error and no confirmation.
C5_ConfirmationOnlyOnSuccess ==
    /\ Logged(LogRefreshed) => cycleResult = "renew_ok"
    /\ cycleResult \in {"renew_failed", "renew_timeout"}
         => Logged(LogRefreshError) /\ ~Logged(LogRefreshed)

\* C6: a cycle issues at most one Ticket call, and a Ticket call is issued
\* only when a full interval has passed since the one before.
C6_OneRenewPerInterval ==
    /\ [](callsInCycle <= 1)
    /\ [][callsInCycle' > callsInCycle
            => sinceCall = -1 \/ sinceCall >= sessionTicketRefreshInterval]_vars

\* A cycle's Ticket call timed out, the cycle made that one call, and a full
\* interval has passed without another.
C6_Witness ==
    /\ rpc = "select"
    /\ timer = 0
    /\ cycleResult = "renew_timeout"
    /\ callsInCycle = 1
    /\ sinceCall = sessionTicketRefreshInterval
-----------------------------------------------------------------------------
(* Properties of getProxmoxClient.                                         *)

\* The last call, its inputs read off the JSON object of the file.
Called == clientResult # Nil
LastCall == clientResult[1]
Loadable(file) ==
    /\ file.kind = "json"
    /\ \A k \in JSONKeys : file.obj[k] # NUMBER
InFile(k) == IF LastCall.file.obj[k] = ABSENT THEN "" ELSE LastCall.file.obj[k]
Built == Called /\ LastCall.ret.client # Nil
BuiltClient == LastCall.ret.client[1]

\* C7: the client getProxmoxClient builds is in token mode, with identity
\* username@realm!tokenID and no login credentials, exactly when the token of
\* the credentials file is non-empty, and in password mode, with credentials
\* and no token, exactly when it is empty; never both, never neither.
C7_ModeByTokenID ==
    Built =>
        /\ InFile("token") # ""
             => /\ BuiltClient.token =
                       Ref(<<InFile("username"), "@", InFile("realm"), "!", InFile("token")>>)
                /\ BuiltClient.credentials = Nil
        /\ InFile("token") = ""
             => /\ BuiltClient.credentials # Nil
                /\ BuiltClient.token = Nil
        /\ (BuiltClient.credentials = Nil) # (BuiltClient.token = Nil)

\* A token-mode client was built from a file that also holds a password.
C7_Witness ==
    /\ Built
    /\ InFile("token") = "ci-token"
    /\ InFile("password") = "pw"
    /\ BuiltClient.token # Nil

\* The password login cannot succeed with these credentials.
Insufficient == InFile("username") = "" \/ InFile("password") = "" \/ InFile("realm") = ""

PasswordCase ==
    /\ Called
    /\ LastCall.url \notin MalformedURLs
    /\ Loadable(LastCall.file)
    /\ InFile("token") = ""

\* C8 as stated: with an empty token and credentials that are insufficient
\* for a login, getProxmoxClient returns an error and no client.
C8_LoginFailureReturned ==
    PasswordCase /\ Insufficient
        => LastCall.ret.err # Nil /\ LastCall.ret.client = Nil

\* C8 as amended: with an empty token, getProxmoxClient returns a
\* password-mode client that holds the username, password, path, privs and
\* realm of the file, and a nil error, whatever those fields hold.
C8_PasswordClientReturned ==
    PasswordCase
        => /\ LastCall.ret.err = Nil
           /\ LastCall.ret.client # Nil
           /\ BuiltClient.token = Nil
           /\ BuiltClient.credentials =
                 Ref([Username |-> InFile("username"), Password |-> InFile("password"),
                      Path |-> InFile("path"), Privs |-> InFile("privs"),
                      Realm |-> InFile("realm")])

\* A password-mode client was returned for a file with a realm and no password.
C8_Witness ==
    /\ PasswordCase
    /\ InFile("password") = ""
    /\ InFile("realm") = "pam"
    /\ LastCall.ret.err = Nil
    /\ LastCall.ret.client # Nil

\* C9: getProxmoxClient returns a client exactly when the URL parses and the
\* credentials load, and an error exactly otherwise; a malformed URL fails
\* with the file never opened; a file that cannot be opened or decoded gives
\* the error that names that stage (open or decode), and no client.
C9_ClientIffParsedAndLoaded ==
    Called =>
        LET ok == LastCall.url \notin MalformedURLs /\ Loadable(LastCall.file)
            ret == LastCall.ret
        IN  /\ (ret.client # Nil) <=> ok
            /\ (ret.err = Nil) <=> ok
            /\ LastCall.url \in MalformedURLs
                 => ret.opened = 0 /\ ret.err[1].msg = "failed to parse URL"
            /\ LastCall.url \notin MalformedURLs /\ LastCall.file.kind = "missing"
                 => ret.err[1].msg = "failed to open credentials file from path"
            /\ LastCall.url \notin MalformedURLs /\ LastCall.file.kind # "missing"
                 /\ ~Loadable(LastCall.file)
                 => ret.err[1].msg = "failed to decode credentials file from path"

\* With a good URL and a file that holds a number for the password, the call
\* returned the decode error and no client.
C9_Witness ==
    /\ Called
    /\ LastCall.url = "https://pve:8006"
    /\ LastCall.file.kind = "json"
    /\ LastCall.file.obj["password"] = NUMBER
    /\ LastCall.ret.client = Nil
    /\ LastCall.ret.err # Nil
-----------------------------------------------------------------------------
(* Properties of getProxmoxVM.                                             *)

\* The qemu members with the requested id, by position in the list.
Matches(members, vmid) ==
    {i \in 1..Len(members) : members[i].Type = "qemu" /\ members[i].VMID = vmid}

FirstOf(S) == CHOOSE i \in S : \A j \in S : i <= j

\* C10: every getProxmoxVM call looks the instance up on the node of the
\* first member, in list order, of type qemu with the requested id, and on
\* no other node; members of another type with that id are passed over; it
\* returns ErrNotFound exactly when the pool was fetched and the list holds
\* no such member.
C10_FirstQemuMatch ==
    vmResult # Nil =>
        LET call == vmResult[1]
            ret == call.ret
            m == Matches(call.members, call.vmid)
            fetched == call.api # "pool_fails"
        IN  /\ (ret.err = Ref(ErrNotFound)) <=> (fetched /\ m = {})
            /\ fetched /\ m = {} => Len(ret.calls) = 1 /\ ret.vm = Nil
            /\ fetched /\ m # {}
                 => LET node == call.members[FirstOf(m)].Node
                    IN  /\ Len(ret.calls) >= 2
                        /\ \A k \in 2..Len(ret.calls) : ret.calls[k][2] = node
                        /\ ret.vm # Nil => ret.vm[1] = [VMID |-> call.vmid, Node |-> node]
                        /\ call.api = "ok" => ret.vm # Nil

\* A call for 105 returned the VM on pve2 while the list holds, before the
\* qemu member 105 on pve2, an lxc member 105 on pve1, and after it a qemu
\* member 105 on pve1.
C10_Witness ==
    /\ vmResult # Nil
    /\ vmResult[1].vmid = 105
    /\ vmResult[1].ret.vm = Ref([VMID |-> 105, Node |-> "pve2"])
    /\ vmResult[1].members = <<[Type |-> "lxc", VMID |-> 105, Node |-> "pve1"],
                       [Type |-> "qemu", VMID |-> 105, Node |-> "pve2"],
                       [Type |-> "qemu", VMID |-> 105, Node |-> "pve1"]>>
-----------------------------------------------------------------------------
(* Further properties of the refresher.                                    *)

\* C13: once the shutdown trigger has fired with the refresher waiting in (or
\* on its way to) the select, no refresh cycle starts any more, also when
\* the interval timer has elapsed by then.
C13_NoCycleAfterShutdown ==
    (trigger /\ signalPc \in {"launched", "select"}) => rpc \notin {"cycle", "ticket"}

\* C14: a cycle whose credential read fails issues no Ticket call, so the
\* client and its session ticket are not touched: the cycle ends in the
\* select with the call count at zero and the last call what it was.
C14_FailedReadNoRenew ==
    /\ [](cycleResult = "credentials_failed" => callsInCycle = 0)
    /\ [][(cycleResult = "running" /\ cycleResult' = "credentials_failed")
            => /\ rpc' = "select"
               /\ callsInCycle' = 0
               /\ UNCHANGED <<ticketArgs, sinceCall>>]_vars

\* After a cycle that renewed, a cycle failed on the credential read.
C14_Witness ==
    /\ rpc = "select"
    /\ cycleResult = "credentials_failed"
    /\ ticketArgs # Nil
    /\ sinceCall = sessionTicketRefreshInterval

\* What a cycle that reads the file as it is now does next.
CycleUsesFile ==
    IF Loadable(credFile)
    THEN /\ rpc' = "ticket"
         /\ ticketArgs' # Nil
         /\ ticketArgs'[1] # Nil
         /\ ticketArgs'[1][1].Username =
               (IF credFile.obj["username"] = ABSENT THEN "" ELSE credFile.obj["username"])
    ELSE /\ rpc' = "select"
         /\ cycleResult' = "credentials_failed"

SessionTicket == "PVE:ticket"

\* C16: every Ticket call of a refresh cycle passes the session's current
\* ticket as the proof of identity, and never the stored password.
C16_RenewsWithTicket ==
    ticketArgs # Nil
        => /\ ticketArgs[1] # Nil
           /\ ticketArgs[1][1].Password = SessionTicket
-----------------------------------------------------------------------------
(* Further properties of getProxmoxCredentials.                            *)

\* C19: getProxmoxCredentials leaves no file handle open, whether it returns
\* the credentials, a decode error or an open error, and a call changes
\* neither the credential file nor the state of the group.
C19_NoHandleLeftOpen ==
    /\ [](openHandles = 0)
    /\ [][credResult' # credResult
            => UNCHANGED <<refresherVars, credFile, settingsURL, clientResult,
                           poolMembers, vmResult>>]_vars

\* A call that opened the file and failed to decode it has returned.
C19_Witness ==
    /\ credResult # Nil
    /\ credResult[1].ret.err # Nil
    /\ credResult[1].ret.err[1].wraps = "decode"
    /\ credResult[1].ret.opened = 1
    /\ openHandles = 0
-----------------------------------------------------------------------------
(* Further properties of getProxmoxVM.                                     *)

\* C17: getProxmoxVM stops at the first failing step. A failing pool fetch is
\* returned wrapped with the pool name, with no node or instance lookup made;
\* a failing node or instance lookup on the node of the first matching member
\* is returned wrapped with the node (and the id), with no lookup for a later
\* member and never as ErrNotFound.
C17_StopsAtFirstFailure ==
    vmResult # Nil =>
        LET call == vmResult[1]
            ret == call.ret
            m == Matches(call.members, call.vmid)
        IN  /\ call.api = "pool_fails"
                 => ret = [vm |-> Nil,
                           err |-> Ref([msg |-> "failed to get pool id", wraps |-> "api",
                                        context |-> <<"ig.Settings.Pool">>]),
                           calls |-> <<<<"Pool">>>>]
            /\ call.api = "node_fails" /\ m # {}
                 => LET node == call.members[FirstOf(m)].Node
                    IN  ret = [vm |-> Nil,
                               err |-> Ref([msg |-> "failed to get node", wraps |-> "api",
                                            context |-> <<node>>]),
                               calls |-> <<<<"Pool">>, <<"Node", node>>>>]
            /\ call.api = "vm_fails" /\ m # {}
                 => LET node == call.members[FirstOf(m)].Node
                    IN  ret = [vm |-> Nil,
                               err |-> Ref([msg |-> "failed to get vm on node",
                                            wraps |-> "api",
                                            context |-> <<ToString(call.vmid), node>>]),
                               calls |-> <<<<"Pool">>, <<"Node", node>>,
                                           <<"VirtualMachine", node, call.vmid>>>>]

\* The node lookup failed for the first of two matching members on different
\* nodes, and the call returned that error.
C17_Witness ==
    /\ vmResult # Nil
    /\ vmResult[1].api = "node_fails"
    /\ vmResult[1].vmid = 105
    /\ vmResult[1].members = <<[Type |-> "qemu", VMID |-> 105, Node |-> "pve2"],
                               [Type |-> "qemu", VMID |-> 105, Node |-> "pve1"]>>
    /\ vmResult[1].ret.err # Nil
    /\ vmResult[1].ret.err[1].context = <<"pve2">>

C18_FreshMembership ==
    [][<<vmResult, vmPrev>>' # <<vmResult, vmPrev>>
         => LET call == vmResult'[1]
                m == Matches(poolMembers, call.vmid)
            IN  /\ call.members = poolMembers
                /\ call.ret.vm # Nil
                     => /\ m # {}
                        /\ call.ret.vm[1].Node = poolMembers[FirstOf(m)].Node]_vars

\* A call returned the VM on pve1, the instance migrated to pve2, and the
\* next call returned it on pve2.
C18_Witness ==
    /\ vmPrev # Nil
    /\ vmResult # Nil
    /\ vmPrev[1].members = <<[Type |-> "qemu", VMID |-> 105, Node |-> "pve1"]>>
    /\ vmPrev[1].ret.vm = Ref([VMID |-> 105, Node |-> "pve1"])
    /\ poolMembers = <<[Type |-> "qemu", VMID |-> 105, Node |-> "pve2"]>>
    /\ vmResult[1].ret.vm = Ref([VMID |-> 105, Node |-> "pve2"])
====
